---- MODULE Spec2Model ----
(***************************************************************************)
(* A model of smartclient: the retry loop of SmartClient (client.py), the  *)
(* CircuitBreakerSet it consults (breaker.py) and the host pool of         *)
(* BackendServiceProvider / UpdateableIterator (service.py).               *)
(*                                                                         *)
(* Five specifications share the variables, each leaving the others' at    *)
(* their initial values: Spec (a client and its runs of retry), SpecPool   *)
(* (the watch callback beside next()), SpecAdapter (the hostname adapter), *)
(* SpecRetriable (a Retriable invoked again and again) and SpecProvider    *)
(* (threads calling get_host() over a changing registry, with the watches  *)
(* of backends/zookeeper.py).                                              *)
(*                                                                         *)
(* The per-host breaker itself (circuit.CircuitBreaker) is a library the   *)
(* repository imports; its state machine is modelled from the written      *)
(* specification (closed / open / half-open).                              *)
(***************************************************************************)
EXTENDS Integers, Sequences, FiniteSets, TLC

VARIABLES
    mode,         \* how the client finds hosts: "static" | "watching" | "polling"
    error_types,  \* SmartClient.error_types: the countable error kinds
    children,     \* the registry: child names under the watched node
    hosts_iter,   \* SmartClient._hosts_iter: it.cycle(hosts), or None
    provider,     \* BackendServiceProvider: _loaded, _hosts, _watcher, _hosts_iter
    circuits,     \* CircuitBreakerSet.circuits: host key -> breaker
    pc,           \* where the run of retry() is: idle | loop | sleep | done
    i,            \* the loop variable of retry()
    max_tries,    \* retry(max_tries=...)
    backoff,      \* retry(backoff=...): "none" | "fixed" | "callable"
    send_host,    \* retry(send_host=...)
    outcome,      \* how the run ended: a result or the error raised
    hist,         \* what this run did so far (observation only)
    ac,           \* the last direct call of all_closed(): what it saw and returned
    wr,           \* the thread of the watch callback: where it is in _reset_hosts
    rd,           \* the thread that calls next(): where it is, the cycle it loaded
    obs,          \* what the last two calls of next() returned (observation only)
    gens,         \* the host sets of the replacements begun so far (observation only)
    completed,    \* how many of them have returned (observation only)
    descriptor,   \* the host descriptor handed to default_hostname_adapter
    rendered,     \* what the adapter made of it: nothing yet, a hostname or an error
    constructed,  \* what Retriable(func, *args, **kwargs) was constructed with
    retriable,    \* the Retriable object: its args and kwargs
    invoked,      \* what func was last called with (observation only)
    threads,      \* the threads that call get_host(): where each is in the call
    watches,      \* the handles watch_all has returned, with the watches of each
    versions,     \* the registry: which data each child node holds
    changes,      \* how many times the registry has changed
    seen          \* what the calls on the provider did (observation only)

\* the pool's threads and what is observed of them
poolVars == <<wr, rd, obs, gens, completed>>

\* the client, its breakers and its run of retry()
retryVars == <<mode, error_types, children, hosts_iter, circuits,
               pc, i, max_tries, backoff, send_host, outcome, hist, ac>>

\* the hostname adapter called on its own
adapterVars == <<descriptor, rendered>>

\* what a run of retry() leaves alone, and what the pool's two threads leave alone
\* a Retriable called on its own
retriableVars == <<constructed, retriable, invoked>>

\* the threads on a provider, and the registry with its watches
watchVars == <<threads, watches, versions, changes, seen>>

besideRetry == <<poolVars, adapterVars, retriableVars, watchVars>>
besidePool == <<retryVars, adapterVars, retriableVars, watchVars>>

\* what get_host(), the watch callbacks and the registry leave alone
besideProvider ==
    <<mode, error_types, hosts_iter, circuits, pc, i, max_tries, backoff,
      send_host, outcome, hist, ac, poolVars, adapterVars, retriableVars>>

vars == <<mode, error_types, children, hosts_iter, provider, circuits,
          pc, i, max_tries, backoff, send_host, outcome, hist, ac,
          wr, rd, obs, gens, completed, descriptor, rendered,
          constructed, retriable, invoked,
          threads, watches, versions, changes, seen>>

----------------------------------------------------------------------------
(* Bounds of the model *)

\* retry() is called with max_tries in 0..MaxTriesBound
MaxTriesBound == 4

\* the watch callback replaces the host list at most this many times
MaxReplacements == 2

----------------------------------------------------------------------------
(* Hosts and host descriptors *)

ChildNames == {"A", "B"}

\* the data the registry holds for a child (backend.get_node)
NodeData(c) ==
    IF c = "B" THEN [address |-> c, port |-> 8080, sslPort |-> 8443]
               ELSE [address |-> c, port |-> 8080, sslPort |-> 0]

ConfigGet(config, k, d) == IF k \in DOMAIN config THEN config[k] ELSE d

\* as default_hostname_adapter, with line 26 run unconditionally: the port is
\* always config['port'], whatever the scheme
default_hostname_adapter_plain_port(config) ==
    IF "address" \notin DOMAIN config \/ "port" \notin DOMAIN config
    THEN [err |-> "KeyError", val |-> <<>>]
    ELSE [err |-> "none",
          val |-> << IF ConfigGet(config, "sslPort", 0) # 0 THEN "https" ELSE "http",
                     config["address"], config["port"] >>]

\* service.py: default_hostname_adapter
default_hostname_adapter(config) ==
    LET ssl == ConfigGet(config, "sslPort", 0) IN
    IF "address" \notin DOMAIN config \/ (ssl = 0 /\ "port" \notin DOMAIN config)
    THEN [err |-> "KeyError", val |-> <<>>]
    ELSE [err |-> "none",
          val |-> << IF ssl # 0 THEN "https" ELSE "http",
                     config["address"],
                     IF ssl = 0 THEN config["port"] ELSE ssl >>]

HostKey(c) == default_hostname_adapter(NodeData(c)).val

HostKeys == {HostKey(c) : c \in ChildNames}

A == HostKey("A")
B == HostKey("B")

\* every ordering of a sequence without repetitions (random.shuffle)
Shuffles(s) ==
    {p \in [1..Len(s) -> {s[k] : k \in 1..Len(s)}] :
        \A x \in {s[k] : k \in 1..Len(s)} : \E k \in 1..Len(s) : p[k] = x}

----------------------------------------------------------------------------
(* itertools.cycle and UpdateableIterator *)

\* it.cycle(items)
Cycle(items) == [items |-> items, pos |-> 0]

\* next(cycle): StopIteration on an empty cycle
CycleNext(c) ==
    IF Len(c.items) = 0
    THEN [stop |-> TRUE, val |-> <<>>, cycle |-> c]
    ELSE [stop |-> FALSE, val |-> c.items[c.pos + 1],
          cycle |-> [c EXCEPT !.pos = (c.pos + 1) % Len(c.items)]]


\* UpdateableIterator(items, stop_exc): the cycle objects ever made are kept in
\* iters, and iter is the index of the one self._iter refers to
UpdateableIterator(items) == [items |-> items, iters |-> <<Cycle(items)>>, iter |-> 1]

\* as modify, without line 120: the cycle in use is kept
modify_items_only(u, items) == [u EXCEPT !.items = items]

\* UpdateableIterator.modify
modify(u, items) ==
    [items |-> items, iters |-> Append(u.iters, Cycle(items)), iter |-> Len(u.iters) + 1]

\* as UpdateableNext, with StopIteration let through
UpdateableNext_plain(u) ==
    LET n == CycleNext(u.iters[u.iter]) IN
    IF n.stop
    THEN [err |-> "StopIteration", val |-> <<>>, u |-> u]
    ELSE [err |-> "none", val |-> n.val,
          u |-> [u EXCEPT !.iters[u.iter] = n.cycle]]

\* UpdateableIterator.next: StopIteration becomes stop_exc (NoHostsAvailableException)
UpdateableNext(u) ==
    LET n == CycleNext(u.iters[u.iter]) IN
    IF n.stop
    THEN [err |-> "NoHostsAvailable", val |-> <<>>, u |-> u]
    ELSE [err |-> "none", val |-> n.val,
          u |-> [u EXCEPT !.iters[u.iter] = n.cycle]]

----------------------------------------------------------------------------
(* BackendServiceProvider *)

\* BackendServiceProvider.__init__
NewProvider ==
    [loaded |-> FALSE, hosts |-> <<>>, watcher |-> "None", updated |-> FALSE,
     it |-> UpdateableIterator(<<>>)]

\* BackendServiceProvider._get_hosts: one get_node per child, in get_children order
get_hosts(ch) == [k \in 1..Len(ch) |-> NodeData(ch[k])]

\* BackendServiceProvider._reset_hosts; shuffled is the order random.shuffle left
reset_hosts(p, shuffled) ==
    [p EXCEPT !.hosts = shuffled, !.it = modify(p.it, shuffled), !.updated = TRUE]

\* BackendServiceProvider._load
load(p, shuffled) == [reset_hosts(p, shuffled) EXCEPT !.loaded = TRUE]

\* BackendServiceProvider._watch
watch(p) == [p EXCEPT !.watcher = "watching"]

\* BackendServiceProvider._hosts_iterator (the property): the provider after the
\* lazy load and the lazy watch registration
hosts_iterator(p, supports_watching, shuffled) ==
    LET p1 == IF ~p.loaded THEN load(p, shuffled) ELSE p
    IN IF supports_watching /\ p1.watcher = "None" THEN watch(p1) ELSE p1

\* BackendServiceProvider.get_host. Without watch support line 54 reads
\* self._last_udpated, an attribute that is never assigned.
get_host(p, supports_watching, shuffled) ==
    IF ~supports_watching
    THEN [err |-> "AttributeError", val |-> <<>>, p |-> p]
    ELSE LET p2 == hosts_iterator(p, supports_watching, shuffled)
             n  == UpdateableNext(p2.it)
         IN [err |-> n.err, val |-> n.val, p |-> [p2 EXCEPT !.it = n.u]]

\* BackendServiceProvider.get_hostname
provider_get_hostname(p, supports_watching, shuffled) ==
    LET h == get_host(p, supports_watching, shuffled) IN
    IF h.err # "none" THEN h
    ELSE LET r == default_hostname_adapter(h.val)
         IN [err |-> r.err, val |-> r.val, p |-> h.p]

----------------------------------------------------------------------------
(* SmartClient.get_hostname *)

\* as get_hostname, with a new cycle over the fixed list made for every call
get_hostname_fresh_cycle(md, p, hi, shuffled) ==
    IF md # "static"
    THEN LET r == provider_get_hostname(p, md = "watching", shuffled)
         IN [err |-> r.err, val |-> r.val, p |-> r.p, hi |-> hi]
    ELSE [err |-> "none", val |-> CycleNext(Cycle(hi.items)).val, p |-> p, hi |-> hi]

\* The host of the next attempt: from the provider when there is one, else from
\* the cycle over the fixed host list.
get_hostname(md, p, hi, shuffled) ==
    IF md # "static"
    THEN LET r == provider_get_hostname(p, md = "watching", shuffled)
         IN [err |-> r.err, val |-> r.val, p |-> r.p, hi |-> hi]
    ELSE LET n == CycleNext(hi)
         IN [err |-> "none", val |-> n.val, p |-> p, hi |-> n.cycle]

----------------------------------------------------------------------------
(* The circuit breaker of one host (library circuit.CircuitBreaker) *)

\* failures a breaker counts before it opens (the library's default maxfail)
MaxFail == 3

\* circuits has no entry for the key yet
NoBreaker == [state |-> "absent", fails |-> 0, cooled |-> FALSE]

\* a breaker as the set creates it: closed, nothing counted; cooled says that
\* the cool-down has elapsed since the breaker opened
NewBreaker == [state |-> "closed", fails |-> 0, cooled |-> FALSE]

\* entering the monitored scope: an open breaker rejects (CircuitOpenError)
\* until its cool-down has elapsed, and then turns half-open and lets one through
BreakerTest(b) ==
    IF b.state = "open"
    THEN IF b.cooled
         THEN [b |-> [b EXCEPT !.state = "half-open", !.cooled = FALSE], raised |-> FALSE]
         ELSE [b |-> b, raised |-> TRUE]
    ELSE [b |-> b, raised |-> FALSE]

\* the scope ended without an error
BreakerSuccess(b) ==
    IF b.state = "half-open" THEN NewBreaker ELSE b

\* the scope ended with a countable error
BreakerError(b) ==
    IF b.state = "half-open" \/ b.fails + 1 >= MaxFail
    THEN [state |-> "open", fails |-> 0, cooled |-> FALSE]
    ELSE [b EXCEPT !.fails = b.fails + 1]

\* leaving the monitored scope with outcome out ("ok" or the error's kind): only
\* an error of a handled kind is counted, and the error is never swallowed
BreakerExit(b, out, errs) ==
    IF out = "ok" THEN BreakerSuccess(b)
    ELSE IF out \in errs THEN BreakerError(b)
    ELSE b

\* CircuitBreakerSet.context(id): the breaker of the key, made on first reference
context(cs, id) ==
    IF cs[id].state = "absent" THEN [cs EXCEPT ![id] = NewBreaker] ELSE cs

----------------------------------------------------------------------------
(* smartclient.breaker.CircuitBreakerSet *)

Known(cs) == {h \in DOMAIN cs : cs[h].state # "absent"}

\* the orders in which circuits.values() may list the breakers
Orders(cs) ==
    LET n == Cardinality(Known(cs)) IN
    {o \in [1..n -> Known(cs)] : \A h \in Known(cs) : \E k \in 1..n : o[k] = h}

\* CircuitBreakerSet.test: circuit.test() on one breaker after the other, in the
\* order the dict lists them; the first rejection ends it with CircuitOpenError
RECURSIVE TestFrom(_, _, _)
TestFrom(cs, order, k) ==
    IF k > Len(order) THEN [circuits |-> cs, raised |-> FALSE]
    ELSE LET t == BreakerTest(cs[order[k]]) IN
         IF t.raised THEN [circuits |-> cs, raised |-> TRUE]
         ELSE TestFrom([cs EXCEPT ![order[k]] = t.b], order, k + 1)

test(cs, order) == TestFrom(cs, order, 1)

\* CircuitBreakerSet.all_closed: False when test() raised; otherwise the method
\* ends without a return statement, and the call evaluates to None
all_closed(cs, order) ==
    LET t == test(cs, order) IN
    [circuits |-> t.circuits, ret |-> IF t.raised THEN "False" ELSE "None"]

\* Python truth of a value returned by all_closed
Truthy(v) == v = "True"

----------------------------------------------------------------------------
(* SmartClient.retry *)

\* what one invocation of the operation may do: return, or raise one of these
ErrorKinds == {"ConnectionError", "ValueError"}
Outcomes == {"ok"} \cup ErrorKinds

\* line 104 raises the name AllHostsUnreachable; client.py imports and defines
\* only AllHostsUnreachableException, so evaluating the name is a NameError
RaiseAllHostsUnreachable == "NameError"

\* as in_xrange, with the loop written xrange(1, max_tries)
in_xrange_short(k, n) == 1 <= k /\ k < n

\* line 93: i is in xrange(1, max_tries + 1)
in_xrange(k, n) == 1 <= k /\ k <= n

\* as caught, with a bare except clause
caught_any(out, errs) == out # "ok"

\* line 106: the except clause catches the kinds of breakers.error_types
caught(out, errs) == out \in errs

\* as backoff_due, without the test for the last attempt
backoff_due_always(bo, k, n) == bo # "none"

\* line 109: if backoff and i < max_tries
backoff_due(bo, k, n) == bo # "none" /\ k < n

\* lines 97-101: the with statement runs its body unless __enter__ raised
scope_runs(t) == ~t.raised

\* as scope_exit, with the error caught inside the with statement, so that
\* __exit__ sees a countable failure as a success
scope_exit_swallowed(b, out, errs) ==
    BreakerExit(b, IF out \in errs THEN "ok" ELSE out, errs)

\* lines 97-101: the error the body raised passes through __exit__ before any
\* except clause of retry() sees it
scope_exit(b, out, errs) == BreakerExit(b, out, errs)

\* as falls_through, with a continue at the end of the CircuitOpenError clause
falls_through_countable(kind) == kind = "countable"

\* lines 102-109: both except clauses end without continue, so a rejected
\* attempt and a countable failure alike go on to the backoff test of line 109
falls_through(kind) == kind \in {"rejected", "countable"}

\* lines 95-107, one pass of the loop body for the host selected: the breaker
\* set afterwards, how the pass ends (return / raise / continue) and what
\* happened in it
retry_body(cs, host, out, order, errs) ==
    LET c0 == context(cs, host)
        t  == BreakerTest(c0[host])
        c1 == [c0 EXCEPT ![host] = t.b]
    IN IF ~scope_runs(t)
       THEN LET a == all_closed(c1, order) IN
            [circuits |-> a.circuits, kind |-> "rejected",
             end |-> IF Truthy(a.ret) THEN "raise" ELSE "continue",
             exc |-> IF Truthy(a.ret) THEN RaiseAllHostsUnreachable ELSE "none"]
       ELSE LET c2 == [c1 EXCEPT ![host] = scope_exit(c1[host], out, errs)] IN
            [circuits |-> c2,
             kind |-> IF out = "ok" THEN "ok"
                      ELSE IF caught(out, errs) THEN "countable" ELSE "opaque",
             end |-> IF out = "ok" THEN "return"
                     ELSE IF caught(out, errs) THEN "continue" ELSE "raise",
             exc |-> IF out = "ok" \/ caught(out, errs) THEN "none" ELSE out]

\* lines 85-90: what a call of the decorated function gives its caller, from
\* how the call of retry() on line 89 ended. An error raised there passes
\* through; a result is dropped, line 89 having no return statement, and the
\* wrapper returns None.
wrapper(ended) == IF ended = "Result" THEN "None" ELSE ended

\* the breaker set once the monitored scope of host has been entered (the
\* breaker made on first reference, an open one past its cool-down half-open)
Entered(cs, host) ==
    [context(cs, host) EXCEPT ![host] = BreakerTest(context(cs, host)[host]).b]

\* the kind of the last attempt (none | nohost | rejected | ok | countable |
\* opaque), its host, the host handed to the operation, what the operation
\* raised, and whether every known breaker was open when the scope was entered
NoAttempt ==
    [kind |-> "none", host |-> <<>>, bound |-> <<>>, raised |-> "none", allOpen |-> FALSE]

NoHist ==
    [invocations |-> 0, sleeps |-> 0, evals |-> 0, slept |-> FALSE,
     last |-> NoAttempt, allCountable |-> TRUE, fresh |-> FALSE,
     invoked |-> {}, rejected |-> {}, failed |-> {}, resultHost |-> <<>>]

\* no direct call of all_closed() since the last run started
NoCall == [called |-> FALSE, ret |-> "None", hadOpen |-> FALSE]

AllOpen(cs) == Known(cs) # {} /\ \A h \in Known(cs) : cs[h].state = "open"

Fresh(cs) == \A h \in DOMAIN cs : cs[h] \in {NoBreaker, NewBreaker}

\* retry(retriable, max_tries=n, backoff=bo, send_host=sh) is called; an empty
\* xrange falls through to line 112
Start(n, bo, sh) ==
    /\ pc = "idle"
    /\ max_tries' = n /\ backoff' = bo /\ send_host' = sh
    /\ hist' = [NoHist EXCEPT !.fresh = Fresh(circuits)]
    /\ IF in_xrange(1, n)
       THEN pc' = "loop" /\ i' = 1 /\ outcome' = "none"
       ELSE pc' = "done" /\ i' = 0 /\ outcome' = "MaxRetriesReached"
    /\ ac' = NoCall
    /\ UNCHANGED <<mode, error_types, children, hosts_iter, provider, circuits>>
    /\ UNCHANGED besideRetry

\* lines 94-112: attempt i, up to the sleep or the next pass of the loop
Attempt(out, order, shuffled) ==
    /\ pc = "loop"
    /\ LET sel == get_hostname(mode, provider, hosts_iter, shuffled) IN
       /\ provider' = sel.p
       /\ hosts_iter' = sel.hi
       /\ IF sel.err # "none"
          THEN /\ pc' = "done"
               /\ outcome' = sel.err
               /\ hist' = [hist EXCEPT !.slept = FALSE,
                                       !.last = [NoAttempt EXCEPT !.kind = "nohost"]]
               /\ UNCHANGED <<circuits, i>>
          ELSE LET host == sel.val
                   r    == retry_body(circuits, host, out, order, error_types)
                   ran  == r.kind # "rejected"
                   att  == [kind |-> r.kind, host |-> host,
                            bound |-> IF ran /\ send_host THEN host ELSE <<>>,
                            raised |-> IF ran /\ out # "ok" THEN out ELSE "none",
                            allOpen |-> AllOpen(Entered(circuits, host))]
               IN /\ circuits' = r.circuits
                  /\ hist' = [hist EXCEPT
                        !.slept = FALSE,
                        !.last = att,
                        !.invocations = IF ran THEN @ + 1 ELSE @,
                        !.allCountable = @ /\ (ran => r.kind = "countable"),
                        !.invoked = IF ran THEN @ \cup {host} ELSE @,
                        !.rejected = IF ran THEN @ ELSE @ \cup {host},
                        !.failed = IF ran /\ r.kind # "ok" THEN @ \cup {host} ELSE @,
                        !.resultHost = IF r.kind = "ok" THEN host ELSE @]
                  /\ IF r.end = "return"
                     THEN pc' = "done" /\ outcome' = "Result" /\ i' = i
                     ELSE IF r.end = "raise"
                     THEN pc' = "done" /\ outcome' = r.exc /\ i' = i
                     ELSE IF falls_through(r.kind) /\ backoff_due(backoff, i, max_tries)
                     THEN pc' = "sleep" /\ outcome' = outcome /\ i' = i
                     ELSE IF in_xrange(i + 1, max_tries)
                     THEN pc' = "loop" /\ outcome' = outcome /\ i' = i + 1
                     ELSE pc' = "done" /\ outcome' = "MaxRetriesReached" /\ i' = i
    /\ UNCHANGED <<mode, error_types, children, max_tries, backoff, send_host, ac>>
    /\ UNCHANGED besideRetry

\* line 110: time.sleep(backoff() if callable(backoff) else backoff), then the
\* next pass of the loop
Sleep ==
    /\ pc = "sleep"
    /\ hist' = [hist EXCEPT !.sleeps = @ + 1, !.slept = TRUE,
                            !.evals = IF backoff = "callable" THEN @ + 1 ELSE @]
    /\ IF in_xrange(i + 1, max_tries)
       THEN pc' = "loop" /\ i' = i + 1 /\ outcome' = outcome
       ELSE pc' = "done" /\ i' = i /\ outcome' = "MaxRetriesReached"
    /\ UNCHANGED <<mode, error_types, children, hosts_iter, provider, circuits,
                   max_tries, backoff, send_host, ac>>
    /\ UNCHANGED besideRetry

\* the caller has the result or the error of the run
Return ==
    /\ pc = "done"
    /\ pc' = "idle" /\ i' = 0 /\ max_tries' = 0 /\ backoff' = "none"
    /\ send_host' = FALSE /\ outcome' = "none" /\ hist' = NoHist
    /\ UNCHANGED <<mode, error_types, children, hosts_iter, provider, circuits, ac>>
    /\ UNCHANGED besideRetry

\* the client's owner calls breakers.all_closed() between runs
CallAllClosed(order) ==
    /\ pc = "idle"
    /\ LET a == all_closed(circuits, order) IN
       /\ circuits' = a.circuits
       /\ ac' = [called |-> TRUE, ret |-> a.ret,
                 hadOpen |-> \E h \in Known(circuits) : circuits[h].state = "open"]
    /\ UNCHANGED <<mode, error_types, children, hosts_iter, provider,
                   pc, i, max_tries, backoff, send_host, outcome, hist>>
    /\ UNCHANGED besideRetry

\* time passes: the cool-down of an open breaker elapses
CoolDown(h) ==
    /\ circuits[h].state = "open" /\ ~circuits[h].cooled
    /\ circuits' = [circuits EXCEPT ![h].cooled = TRUE]
    /\ UNCHANGED <<mode, error_types, children, hosts_iter, provider,
                   pc, i, max_tries, backoff, send_host, outcome, hist, ac>>
    /\ UNCHANGED besideRetry

\* time passes: the oldest counted failure of a closed breaker leaves the window
Forget(h) ==
    /\ circuits[h].state = "closed" /\ circuits[h].fails > 0
    /\ circuits' = [circuits EXCEPT ![h].fails = @ - 1]
    /\ UNCHANGED <<mode, error_types, children, hosts_iter, provider,
                   pc, i, max_tries, backoff, send_host, outcome, hist, ac>>
    /\ UNCHANGED besideRetry

\* the callback thread outside _reset_hosts, the reader outside next()
IdleWriter == [pc |-> "idle"]
IdleReader == [pc |-> "idle", ref |-> 0, lo |-> 0]

\* one call of next() as observed: the value or error, the cycle object it
\* came from, the replacements completed when the call began (lo) and those
\* begun when it ended (hi)
NoCallOfNext == [called |-> FALSE, err |-> "none", val |-> <<>>, ref |-> 0, lo |-> 0, hi |-> 0]
NoObs == [last |-> NoCallOfNext, prev |-> NoCallOfNext]

\* the adapter has not been called on its own
NoRendering == [done |-> FALSE, err |-> "none", val |-> <<>>]

AdapterUnused == descriptor = <<>> /\ rendered = NoRendering

\* Retriable.__init__
Retriable(args, kwargs) == [args |-> args, kwargs |-> kwargs]

\* func has not been called; before is the override of the call before the last
NotInvoked == [called |-> FALSE, args |-> <<>>, kwargs |-> <<>>,
               overrides |-> <<>>, before |-> <<>>]

RetriableUnused ==
    /\ constructed = Retriable(<<>>, <<>>) /\ retriable = constructed
    /\ invoked = NotInvoked

ThreadNames == {"t1", "t2"}

\* a thread outside get_host(); in a call, first says that no call had begun
\* before it and refreshes counts the calls of _reset_hosts it has made
IdleThread == [pc |-> "idle", first |-> FALSE, refreshes |-> 0]

\* no call of get_host() has begun or ended, _unwatch() has not been called
NothingSeen ==
    [calls |-> 0,
     call |-> [ended |-> FALSE, first |-> FALSE, err |-> "none", val |-> <<>>,
               refreshes |-> 0, listed |-> FALSE],
     unwatch |-> [called |-> FALSE, err |-> "none"]]

ProviderUnused ==
    /\ threads = [t \in ThreadNames |-> IdleThread]
    /\ watches = <<>>
    /\ versions = [c \in ChildNames |-> 0]
    /\ changes = 0
    /\ seen = NothingSeen

\* SmartClient.__init__: a fixed host list, or a provider over a registry
Init ==
    /\ mode \in {"static", "watching", "polling"}
    /\ error_types \in {{"ConnectionError"}, {}}
    /\ IF mode = "static"
       THEN /\ children = <<>>
            /\ hosts_iter \in {Cycle(<<A>>), Cycle(<<A, B>>)}
       ELSE /\ children \in {<<>>, <<"A">>, <<"A", "B">>}
            /\ hosts_iter = Cycle(<<>>)
    /\ provider = NewProvider
    /\ circuits = [h \in HostKeys |-> NoBreaker]
    /\ pc = "idle" /\ i = 0 /\ max_tries = 0 /\ backoff = "none"
    /\ send_host = FALSE /\ outcome = "none" /\ hist = NoHist
    /\ ac = NoCall
    /\ wr = IdleWriter /\ rd = IdleReader /\ obs = NoObs
    /\ gens = <<{}>> /\ completed = 1
    /\ AdapterUnused
    /\ RetriableUnused
    /\ ProviderUnused

Next ==
    \/ \E n \in 0..MaxTriesBound, bo \in {"none", "fixed", "callable"}, sh \in BOOLEAN :
          Start(n, bo, sh)
    \/ \E out \in Outcomes, order \in Orders(circuits),
          shuffled \in Shuffles(get_hosts(children)) : Attempt(out, order, shuffled)
    \/ Sleep
    \/ Return
    \/ \E order \in Orders(circuits) : CallAllClosed(order)
    \/ \E h \in HostKeys : CoolDown(h)
    \/ \E h \in HostKeys : Forget(h)

Spec == Init /\ [][Next]_vars

----------------------------------------------------------------------------
(* The host pool under a watch callback: _reset_hosts on the callback's    *)
(* thread while another thread calls next() on the UpdateableIterator.     *)
(* A thread may be switched between any two attribute reads or writes.     *)

\* the lists children.values() may be: the data of any set of children, in any order
ValueLists ==
    UNION {{[k \in 1..Cardinality(S) |-> NodeData(o[k])] :
              o \in {q \in [1..Cardinality(S) -> S] :
                        \A c \in S : \E k \in 1..Cardinality(S) : q[k] = c}} :
           S \in SUBSET ChildNames}

Elems(q) == {q[k] : k \in 1..Len(q)}

\* _on_children_change -> _reset_hosts, line 79: self._hosts = hosts
ResetHosts_assign(hosts) ==
    /\ wr.pc = "idle"
    /\ Len(gens) < 1 + MaxReplacements
    /\ provider' = [provider EXCEPT !.hosts = hosts]
    /\ wr' = [pc |-> "shuffle"]
    /\ gens' = Append(gens, Elems(hosts))
    /\ UNCHANGED <<rd, obs, completed>>
    /\ UNCHANGED besidePool

\* _reset_hosts, line 86: random.shuffle(self._hosts)
ResetHosts_shuffle(shuffled) ==
    /\ wr.pc = "shuffle"
    /\ provider' = [provider EXCEPT !.hosts = shuffled]
    /\ wr' = [pc |-> "items"]
    /\ UNCHANGED <<rd, obs, gens, completed>>
    /\ UNCHANGED besidePool

\* UpdateableIterator.modify, line 119: self.items = items
Modify_items ==
    /\ wr.pc = "items"
    /\ provider' = [provider EXCEPT !.it.items = modify(provider.it, provider.hosts).items]
    /\ wr' = [pc |-> "iter"]
    /\ UNCHANGED <<rd, obs, gens, completed>>
    /\ UNCHANGED besidePool

\* UpdateableIterator.modify, line 120: self._iter = it.cycle(items)
Modify_iter ==
    /\ wr.pc = "iter"
    /\ provider' = [provider EXCEPT !.it = modify(provider.it, provider.it.items)]
    /\ wr' = [pc |-> "stamp"]
    /\ UNCHANGED <<rd, obs, gens, completed>>
    /\ UNCHANGED besidePool

\* _reset_hosts, line 88: self._last_updated = time.time(), and the call returns
ResetHosts_stamp ==
    /\ wr.pc = "stamp"
    /\ provider' = [provider EXCEPT !.updated = TRUE]
    /\ wr' = IdleWriter
    /\ completed' = completed + 1
    /\ UNCHANGED <<rd, obs, gens>>
    /\ UNCHANGED besidePool

\* UpdateableIterator.next, line 124: self._iter is read
Next_load ==
    /\ rd.pc = "idle"
    /\ rd' = [pc |-> "call", ref |-> provider.it.iter, lo |-> completed]
    /\ UNCHANGED <<provider, wr, obs, gens, completed>>
    /\ UNCHANGED besidePool

\* UpdateableIterator.next, lines 124-126: next() of the cycle that was read
Next_call ==
    /\ rd.pc = "call"
    /\ LET n == UpdateableNext([provider.it EXCEPT !.iter = rd.ref]) IN
       /\ provider' = [provider EXCEPT !.it = [n.u EXCEPT !.iter = provider.it.iter]]
       /\ obs' = [prev |-> obs.last,
                  last |-> [called |-> TRUE, err |-> n.err, val |-> n.val,
                            ref |-> rd.ref, lo |-> rd.lo, hi |-> Len(gens)]]
    /\ rd' = IdleReader
    /\ UNCHANGED <<wr, gens, completed>>
    /\ UNCHANGED besidePool

\* a provider as constructed, no client running
InitPool ==
    /\ mode = "watching" /\ error_types = {} /\ children = <<>>
    /\ hosts_iter = Cycle(<<>>)
    /\ provider = NewProvider
    /\ circuits = [h \in HostKeys |-> NoBreaker]
    /\ pc = "idle" /\ i = 0 /\ max_tries = 0 /\ backoff = "none"
    /\ send_host = FALSE /\ outcome = "none" /\ hist = NoHist
    /\ ac = NoCall
    /\ wr = IdleWriter /\ rd = IdleReader /\ obs = NoObs
    /\ gens = <<{}>> /\ completed = 1
    /\ AdapterUnused
    /\ RetriableUnused
    /\ ProviderUnused

NextPool ==
    \/ \E hosts \in ValueLists : ResetHosts_assign(hosts)
    \/ \E shuffled \in Shuffles(provider.hosts) : ResetHosts_shuffle(shuffled)
    \/ Modify_items
    \/ Modify_iter
    \/ ResetHosts_stamp
    \/ Next_load
    \/ Next_call

SpecPool == InitPool /\ [][NextPool]_vars

----------------------------------------------------------------------------
(* default_hostname_adapter called on any descriptor a registry may hold:  *)
(* get_node returns whatever mapping the node's data decodes to, and an    *)
(* empty mapping for the data 'false'.                                     *)

AddressValues == {"A", "B"}
PortValues == {0, 80, 8080, 8443}

TheOne(S) == CHOOSE x \in S : TRUE

\* none or one of the values of S
Optional(S) == {{}} \cup {{v} : v \in S}

\* the mapping with the keys that are given a value
Descriptor(as, ps, ss) ==
    [k \in (IF as = {} THEN {} ELSE {"address"})
             \cup (IF ps = {} THEN {} ELSE {"port"})
             \cup (IF ss = {} THEN {} ELSE {"sslPort"}) |->
        IF k = "address" THEN TheOne(as) ELSE IF k = "port" THEN TheOne(ps) ELSE TheOne(ss)]

Descriptors ==
    {Descriptor(as, ps, ss) :
        as \in Optional(AddressValues), ps \in Optional(PortValues), ss \in Optional(PortValues)}

\* default_hostname_adapter(config) is called: it returns a hostname or raises
Render ==
    /\ ~rendered.done
    /\ LET r == default_hostname_adapter(descriptor) IN
       rendered' = [done |-> TRUE, err |-> r.err, val |-> r.val]
    /\ UNCHANGED descriptor
    /\ UNCHANGED <<retryVars, provider, poolVars, retriableVars, watchVars>>

InitAdapter ==
    /\ mode = "static" /\ error_types = {} /\ children = <<>>
    /\ hosts_iter = Cycle(<<>>)
    /\ provider = NewProvider
    /\ circuits = [h \in HostKeys |-> NoBreaker]
    /\ pc = "idle" /\ i = 0 /\ max_tries = 0 /\ backoff = "none"
    /\ send_host = FALSE /\ outcome = "none" /\ hist = NoHist
    /\ ac = NoCall
    /\ wr = IdleWriter /\ rd = IdleReader /\ obs = NoObs
    /\ gens = <<{}>> /\ completed = 1
    /\ descriptor \in Descriptors
    /\ rendered = NoRendering
    /\ RetriableUnused
    /\ ProviderUnused

NextAdapter == Render

SpecAdapter == InitAdapter /\ [][NextAdapter]_vars

----------------------------------------------------------------------------
(* A Retriable invoked again and again, as retry() does on line 99 with    *)
(* host=host and on line 101 without, and as any caller may.               *)

KwargNames == {"host", "timeout"}
KwargValues(k) == IF k = "host" THEN {"A", "B"} ELSE {"1s", "5s"}

\* the keyword mappings: some of the names, each with one of its values
Kwargs ==
    UNION {{[k \in D |-> IF k = "host" THEN h ELSE t] :
               h \in KwargValues("host"), t \in KwargValues("timeout")} :
           D \in SUBSET KwargNames}

ArgLists == {<<>>, <<"x">>}

\* dict.update: the entries of e replace and extend those of d
Update(d, e) ==
    [k \in DOMAIN d \cup DOMAIN e |-> IF k \in DOMAIN e THEN e[k] ELSE d[k]]

\* as RetriableCall, without the copy of line 26: the overrides are written
\* into self.kwargs
RetriableCall_in_place(r, new_kwargs) ==
    [args |-> r.args, kwargs |-> Update(r.kwargs, new_kwargs),
     self |-> [r EXCEPT !.kwargs = Update(r.kwargs, new_kwargs)]]

\* Retriable.__call__(**new_kwargs): what func is called with, and the object
\* afterwards
RetriableCall(r, new_kwargs) ==
    [args |-> r.args, kwargs |-> Update(r.kwargs, new_kwargs), self |-> r]

\* retriable(**new_kwargs)
Invoke(new_kwargs) ==
    /\ LET c == RetriableCall(retriable, new_kwargs) IN
       /\ retriable' = c.self
       /\ invoked' = [called |-> TRUE, args |-> c.args, kwargs |-> c.kwargs,
                      overrides |-> new_kwargs, before |-> invoked.overrides]
    /\ UNCHANGED constructed
    /\ UNCHANGED <<retryVars, provider, poolVars, adapterVars, watchVars>>

InitRetriable ==
    /\ mode = "static" /\ error_types = {} /\ children = <<>>
    /\ hosts_iter = Cycle(<<>>)
    /\ provider = NewProvider
    /\ circuits = [h \in HostKeys |-> NoBreaker]
    /\ pc = "idle" /\ i = 0 /\ max_tries = 0 /\ backoff = "none"
    /\ send_host = FALSE /\ outcome = "none" /\ hist = NoHist
    /\ ac = NoCall
    /\ wr = IdleWriter /\ rd = IdleReader /\ obs = NoObs
    /\ gens = <<{}>> /\ completed = 1
    /\ AdapterUnused
    /\ \E args \in ArgLists, kwargs \in Kwargs : constructed = Retriable(args, kwargs)
    /\ retriable = constructed
    /\ invoked = NotInvoked
    /\ ProviderUnused

NextRetriable == \E new_kwargs \in Kwargs : Invoke(new_kwargs)

SpecRetriable == InitRetriable /\ [][NextRetriable]_vars

----------------------------------------------------------------------------
(* A BackendServiceProvider called by several threads over a registry that *)
(* changes: get_host() step by step, watch_all and the watch callbacks,    *)
(* _unwatch. A thread may be switched between the test of an attribute and *)
(* the statement that depends on it.                                       *)

\* the registry changes at most this many times
MaxChanges == 2

\* get_host() is called at most this many times
MaxCalls == 3

\* what get_node returns for child c when its node holds version v of its data
NodeDataAt(c, v) ==
    IF v = 0 THEN NodeData(c) ELSE [NodeData(c) EXCEPT !.port = 9090]

\* _get_hosts over the registry as it is now
get_hosts_now(ch, vs) == [k \in 1..Len(ch) |-> NodeDataAt(ch[k], vs[ch[k]])]

\* ZooKeeper.watch_all: the handle over one children watch and one node watch
\* for each child that get_children lists when watch_all runs (lines 56-64)
watch_all(ch) == [nodes |-> {ch[k] : k \in 1..Len(ch)}, stopped |-> {}]

\* the watches a handle holds in self._watches
Underlying(h) == {"children"} \cup h.nodes

\* KazooWatcher.stop: the body of the loop reads self._watch, an attribute no
\* KazooWatcher has, so the first pass raises AttributeError and no watch is
\* marked; _watches is never empty
KazooWatcher_stop(h) == [err |-> "AttributeError", h |-> h]

\* how many handles hold a children watch, and how many a node watch of c
ChildrenWatches(hs) == Len(hs)
NodeWatches(hs, c) == Cardinality({k \in 1..Len(hs) : c \in hs[k].nodes})

\* _on_children_change -> _reset_hosts(children.values()), once for each of
\* the n watches that deliver the change
RECURSIVE Deliver(_, _, _)
Deliver(p, n, shuffled) ==
    IF n = 0 THEN p ELSE Deliver(reset_hosts(p, shuffled), n - 1, shuffled)

Without(ch, c) == SelectSeq(ch, LAMBDA x : x # c)

\* a child registers under the watched node; the children watches fire
ChildJoin(c) ==
    /\ changes < MaxChanges
    /\ c \notin {children[k] : k \in 1..Len(children)}
    /\ children' = Append(children, c)
    /\ changes' = changes + 1
    /\ \E shuffled \in Shuffles(get_hosts_now(Append(children, c), versions)) :
          provider' = Deliver(provider, ChildrenWatches(watches), shuffled)
    /\ UNCHANGED <<threads, watches, versions, seen>>
    /\ UNCHANGED besideProvider

\* a child leaves the watched node; the children watches fire
ChildLeave(c) ==
    /\ changes < MaxChanges
    /\ c \in {children[k] : k \in 1..Len(children)}
    /\ children' = Without(children, c)
    /\ changes' = changes + 1
    /\ \E shuffled \in Shuffles(get_hosts_now(Without(children, c), versions)) :
          provider' = Deliver(provider, ChildrenWatches(watches), shuffled)
    /\ UNCHANGED <<threads, watches, versions, seen>>
    /\ UNCHANGED besideProvider

\* the data of a child's node changes; the node watches on that child fire
DataChange(c) ==
    /\ changes < MaxChanges
    /\ c \in {children[k] : k \in 1..Len(children)}
    /\ versions' = [versions EXCEPT ![c] = 1 - @]
    /\ changes' = changes + 1
    /\ \E shuffled \in Shuffles(get_hosts_now(children, [versions EXCEPT ![c] = 1 - @])) :
          provider' = Deliver(provider, NodeWatches(watches, c), shuffled)
    /\ UNCHANGED <<children, threads, watches, seen>>
    /\ UNCHANGED besideProvider

\* the call of get_host() by thread t ends with a host or an error
EndCall(t, err, val) ==
    /\ threads' = [threads EXCEPT ![t] = IdleThread]
    /\ seen' = [seen EXCEPT !.call =
                    [ended |-> TRUE, first |-> threads[t].first, err |-> err, val |-> val,
                     refreshes |-> threads[t].refreshes, listed |-> children # <<>>]]

\* get_host, lines 53-54 and 64: without watch support the staleness test
\* reads self._last_udpated, which is never assigned; with it the property
\* _hosts_iterator tests self._loaded
GetHost_begin(t) ==
    /\ threads[t].pc = "idle"
    /\ seen.calls < MaxCalls
    /\ IF mode # "watching"
       THEN /\ threads' = [threads EXCEPT ![t] = [pc |-> "raise", first |-> seen.calls = 0,
                                                  refreshes |-> 0]]
       ELSE /\ threads' = [threads EXCEPT ![t] =
                              [pc |-> IF provider.loaded THEN "watcher" ELSE "load",
                               first |-> seen.calls = 0, refreshes |-> 0]]
    /\ seen' = [seen EXCEPT !.calls = @ + 1]
    /\ UNCHANGED <<children, provider, watches, versions, changes>>
    /\ UNCHANGED besideProvider

\* line 54: the AttributeError leaves get_host
GetHost_raise(t) ==
    /\ threads[t].pc = "raise"
    /\ EndCall(t, get_host(provider, FALSE, <<>>).err, <<>>)
    /\ UNCHANGED <<children, provider, watches, versions, changes>>
    /\ UNCHANGED besideProvider

\* line 65: self._load()
HostsIterator_load(t) ==
    /\ threads[t].pc = "load"
    /\ \E shuffled \in Shuffles(get_hosts_now(children, versions)) :
          provider' = load(provider, shuffled)
    /\ threads' = [threads EXCEPT ![t].pc = "watcher", ![t].refreshes = @ + 1]
    /\ UNCHANGED <<children, watches, versions, changes, seen>>
    /\ UNCHANGED besideProvider

\* line 69: supports_watching and self._watcher is None
HostsIterator_test(t) ==
    /\ threads[t].pc = "watcher"
    /\ threads' = [threads EXCEPT ![t].pc =
                      IF provider.watcher = "None" THEN "watch" ELSE "next"]
    /\ UNCHANGED <<children, provider, watches, versions, changes, seen>>
    /\ UNCHANGED besideProvider

\* line 70: self._watch(), that is self._watcher = backend.watch_all(...)
HostsIterator_watch(t) ==
    /\ threads[t].pc = "watch"
    /\ watches' = Append(watches, watch_all(children))
    /\ provider' = watch(provider)
    /\ threads' = [threads EXCEPT ![t].pc = "next"]
    /\ UNCHANGED <<children, versions, changes, seen>>
    /\ UNCHANGED besideProvider

\* lines 72 and 56: next(self._hosts_iter)
GetHost_next(t) ==
    /\ threads[t].pc = "next"
    /\ LET n == UpdateableNext(provider.it) IN
       /\ provider' = [provider EXCEPT !.it = n.u]
       /\ EndCall(t, n.err, n.val)
    /\ UNCHANGED <<children, watches, versions, changes>>
    /\ UNCHANGED besideProvider

\* BackendServiceProvider._unwatch: line 105 is reached only when stop() returns
Unwatch ==
    /\ provider.watcher # "None"
    /\ LET r == KazooWatcher_stop(watches[Len(watches)]) IN
       /\ watches' = [watches EXCEPT ![Len(watches)] = r.h]
       /\ provider' = IF r.err = "none" THEN [provider EXCEPT !.watcher = "None"]
                                        ELSE provider
       /\ seen' = [seen EXCEPT !.unwatch = [called |-> TRUE, err |-> r.err]]
    /\ UNCHANGED <<children, threads, versions, changes>>
    /\ UNCHANGED besideProvider

InitProvider ==
    /\ mode \in {"watching", "polling"}
    /\ error_types = {}
    /\ children \in {<<>>, <<"A">>, <<"A", "B">>}
    /\ hosts_iter = Cycle(<<>>)
    /\ provider = NewProvider
    /\ circuits = [h \in HostKeys |-> NoBreaker]
    /\ pc = "idle" /\ i = 0 /\ max_tries = 0 /\ backoff = "none"
    /\ send_host = FALSE /\ outcome = "none" /\ hist = NoHist
    /\ ac = NoCall
    /\ wr = IdleWriter /\ rd = IdleReader /\ obs = NoObs
    /\ gens = <<{}>> /\ completed = 1
    /\ AdapterUnused
    /\ RetriableUnused
    /\ ProviderUnused

NextProvider ==
    \/ \E t \in ThreadNames : GetHost_begin(t)
    \/ \E t \in ThreadNames : GetHost_raise(t)
    \/ \E t \in ThreadNames : HostsIterator_load(t)
    \/ \E t \in ThreadNames : HostsIterator_test(t)
    \/ \E t \in ThreadNames : HostsIterator_watch(t)
    \/ \E t \in ThreadNames : GetHost_next(t)
    \/ Unwatch
    \/ \E c \in ChildNames : ChildJoin(c)
    \/ \E c \in ChildNames : ChildLeave(c)
    \/ \E c \in ChildNames : DataChange(c)

SpecProvider == InitProvider /\ [][NextProvider]_vars

----------------------------------------------------------------------------
(* Properties of retry() and of the breaker set *)

\* a step that is one attempt of the loop
AttemptStep == pc = "loop" /\ <<pc, i>>' # <<pc, i>>

\* the state of a breaker, one not yet referenced counting as closed
StateOf(cs, h) == IF cs[h].state = "absent" THEN "closed" ELSE cs[h].state

\* errors of host selection, which retry() lets through (line 94 is outside the try)
SelectionErrors == {"NoHostsAvailable", "AttributeError", "KeyError"}

\* C1 (as claimed): an attempt rejected with CircuitOpen while every known
\* breaker is open ends the run at once with AllHostsUnreachable.
C1_AbortsWhenAllOpen ==
    (hist.last.kind = "rejected" /\ hist.last.allOpen)
        => (pc = "done" /\ outcome = "AllHostsUnreachable")

C3_OpaqueLeavesBreakers ==
    [][(AttemptStep /\ hist'.last.raised \notin error_types \cup {"none"})
         => /\ pc' = "done" /\ outcome' = hist'.last.raised
            /\ \A h \in HostKeys : StateOf(circuits', h) = StateOf(circuits, h)]_vars

\* C3 (amended): an attempt whose operation raised an opaque error ends the
\* run with that same error, without a sleep or a later attempt, and the error
\* is not recorded: every breaker is as it was once the scope had been entered
\* (entering it may have moved the host's own breaker from open to half-open).
C3_OpaquePropagates ==
    [][(AttemptStep /\ hist'.last.raised \notin error_types \cup {"none"})
         => /\ pc' = "done" /\ outcome' = hist'.last.raised
            /\ outcome' \notin {"MaxRetriesReached", "AllHostsUnreachable"}
            /\ hist'.sleeps = hist.sleeps /\ ~hist'.slept
            /\ circuits' = Entered(circuits, hist'.last.host)
            /\ \A h \in HostKeys \ {hist'.last.host} : circuits'[h] = circuits[h]
            /\ circuits'[hist'.last.host].fails
                   = context(circuits, hist'.last.host)[hist'.last.host].fails]_vars

C3_Witness ==
    /\ pc = "done" /\ hist.last.kind = "opaque" /\ outcome = "ValueError"
    /\ error_types = {"ConnectionError"} /\ hist.invocations >= 2

\* C4 (as claimed): the operation is never invoked against a host whose
\* breaker is open when the monitored scope is entered.
C4_NeverInvokedWhenOpen ==
    [][(AttemptStep /\ hist'.last.kind \in {"ok", "countable", "opaque"})
         => circuits[hist'.last.host].state # "open"]_vars

\* C4 (amended): the operation is never invoked against a host whose breaker
\* is open and still within its cool-down when the scope is entered; such an
\* attempt invokes nothing and moves the rotation on to the next host. With the
\* pool [A, B], A rejected, B neither rejected nor failing and max_tries >= 2
\* the run returns B's result and the operation is never invoked against A.
C4_SkipsOpenHost ==
    /\ [][AttemptStep /\ hist'.last.kind \notin {"none", "nohost"}
            => LET h == hist'.last.host
                   rejecting == circuits[h].state = "open" /\ ~circuits[h].cooled
               IN /\ rejecting <=> hist'.last.kind = "rejected"
                  /\ rejecting => /\ hist'.invocations = hist.invocations
                                  /\ hist'.invoked = hist.invoked
                  /\ ~rejecting => /\ hist'.invocations = hist.invocations + 1
                                   /\ h \in hist'.invoked
                  /\ mode = "static" =>
                        /\ h = hosts_iter.items[hosts_iter.pos + 1]
                        /\ hosts_iter'.pos = (hosts_iter.pos + 1) % Len(hosts_iter.items)]_vars
    /\ [](( /\ pc = "done" /\ mode = "static" /\ hosts_iter.items = <<A, B>>
            /\ max_tries >= 2 /\ A \in hist.rejected
            /\ B \notin hist.rejected /\ B \notin hist.failed)
          => (outcome = "Result" /\ hist.resultHost = B /\ A \notin hist.invoked))

C4_Witness ==
    /\ pc = "done" /\ mode = "static" /\ hosts_iter.items = <<A, B>>
    /\ A \in hist.rejected /\ outcome = "Result" /\ hist.resultHost = B
    /\ A \notin hist.invoked /\ circuits[A].state = "open"

\* C5 (as claimed): no backoff sleep happens between an attempt rejected with
\* CircuitOpen and the next host selection.
C5_NoSleepAfterRejection ==
    hist.last.kind = "rejected" => (pc # "sleep" /\ ~hist.slept)

\* C5 (amended): with a backoff configured, an attempt rejected with
\* CircuitOpen is followed by a backoff sleep exactly when it is not the final
\* attempt (i < max_tries), as a countable failure is; without a backoff the
\* next attempt follows directly.
C5_SleepAfterRejection ==
    /\ (hist.last.kind = "rejected" /\ pc = "sleep")
          => (backoff # "none" /\ i < max_tries /\ ~hist.slept)
    /\ (hist.last.kind = "rejected" /\ pc = "loop")
          => (hist.slept <=> backoff # "none")
    /\ (hist.last.kind = "rejected" /\ pc = "done")
          => (~hist.slept /\ i = max_tries)

C5_Witness ==
    /\ hist.last.kind = "rejected" /\ pc = "loop" /\ hist.slept /\ ~hist.last.allOpen

\* C6: with a backoff configured a sleep follows attempt i that failed with a
\* countable error iff i < max_tries; no sleep follows the final attempt or a
\* success; a run sleeps at most max_tries - 1 times; a callable backoff is
\* evaluated once for each sleep.
C6_BackoffBetweenAttempts ==
    /\ (hist.last.kind = "countable" /\ pc = "loop")
          => (hist.slept <=> backoff # "none")
    /\ (hist.last.kind = "countable" /\ backoff # "none" /\ ~hist.slept)
          => (pc = "sleep" <=> i < max_tries)
    /\ pc = "sleep" => (backoff # "none" /\ i < max_tries)
    /\ pc = "done" => ~hist.slept
    /\ hist.last.kind = "ok" => (pc = "done" /\ ~hist.slept)
    /\ hist.sleeps <= (IF max_tries >= 1 THEN max_tries - 1 ELSE 0)
    /\ hist.evals = (IF backoff = "callable" THEN hist.sleeps ELSE 0)

C6_Witness ==
    /\ pc = "done" /\ outcome = "MaxRetriesReached" /\ backoff = "callable"
    /\ max_tries >= 3 /\ hist.sleeps = max_tries - 1 /\ hist.evals = hist.sleeps
    /\ hist.last.kind = "countable" /\ hist.invocations = max_tries

\* C7 (as claimed): all_closed() returns false when at least one referenced
\* breaker is open and true when none is (also when none is referenced yet).
C7_AllClosedAnswer ==
    ac.called => /\ ac.hadOpen => ac.ret = "False"
                 /\ ~ac.hadOpen => ac.ret = "True"

\* C8: once the load has left the current generation empty, get_host() fails
\* with NoHostsAvailable, and retry() ends with that error on its first
\* attempt, without an invocation, a sleep or a further attempt.
C8_NoHostsAvailable ==
    (mode = "watching" /\ children = <<>>) =>
        /\ provider.loaded =>
              /\ provider.it.items = <<>>
              /\ get_host(provider, TRUE, <<>>).err = "NoHostsAvailable"
              /\ get_hostname(mode, provider, hosts_iter, <<>>).err = "NoHostsAvailable"
        /\ pc # "sleep"
        /\ pc = "loop" => i = 1
        /\ (pc = "done" /\ max_tries >= 1) =>
              /\ outcome = "NoHostsAvailable" /\ i = 1 /\ provider.loaded
              /\ hist.invocations = 0 /\ hist.sleeps = 0 /\ hist.last.kind = "nohost"

C8_Witness ==
    /\ mode = "watching" /\ children = <<>> /\ provider.loaded
    /\ pc = "done" /\ outcome = "NoHostsAvailable" /\ max_tries >= 2

\* the transitions of the breaker state machine
BreakerEdges ==
    {<<"closed", "open">>, <<"open", "half-open">>,
     <<"half-open", "closed">>, <<"half-open", "open">>}

EdgeOk(b1, b2) ==
    \/ b1.state = b2.state
    \/ b1.state = "absent" /\ b2.state = "closed"
    \/ <<b1.state, b2.state>> \in BreakerEdges

\* C9: each breaker moves only along closed -> open -> half-open -> closed/open:
\* it is open once the threshold of countable failures is counted; past its
\* cool-down the next attempt against it makes it half-open and is let
\* through; a success of that attempt closes it, a countable failure opens it.
C9_BreakerStateMachine ==
    /\ [](\A h \in HostKeys : circuits[h].state = "closed" => circuits[h].fails < MaxFail)
    /\ [][\A h \in HostKeys :
            LET mid == IF AttemptStep /\ hist'.last.kind # "nohost" /\ hist'.last.host = h
                       THEN Entered(circuits, h)[h] ELSE circuits[h]
            IN /\ EdgeOk(circuits[h], mid) /\ EdgeOk(mid, circuits'[h])
               /\ (circuits[h].state = "open" /\ circuits'[h].state # "open")
                     => circuits[h].cooled
               /\ (circuits[h].state = "open" /\ ~AttemptStep)
                     => circuits'[h].state \in {"open", "half-open"}]_vars
    /\ [][(AttemptStep /\ hist'.last.kind # "nohost") =>
            LET h == hist'.last.host
                k == hist'.last.kind
                b == context(circuits, h)[h]
            IN /\ (b.state = "closed" /\ k = "countable" /\ b.fails + 1 >= MaxFail)
                     => circuits'[h].state = "open"
               /\ (b.state = "closed" /\ k = "countable" /\ b.fails + 1 < MaxFail)
                     => (circuits'[h].state = "closed" /\ circuits'[h].fails = b.fails + 1)
               /\ (b.state = "closed" /\ k \in {"ok", "opaque"}) => circuits'[h] = b
               /\ (b.state = "open" /\ b.cooled) => k # "rejected"
               /\ (b.state = "open" /\ ~b.cooled) => (k = "rejected" /\ circuits'[h] = b)
               /\ (b.state \in {"open", "half-open"} /\ k = "ok")
                     => circuits'[h].state = "closed"
               /\ (b.state \in {"open", "half-open"} /\ k = "countable")
                     => (circuits'[h].state = "open" /\ ~circuits'[h].cooled)
               /\ (b.state \in {"open", "half-open"} /\ k = "opaque")
                     => circuits'[h].state = "half-open"]_vars

C9_Witness ==
    /\ circuits[A].state = "half-open" /\ pc = "done"
    /\ hist.last.kind = "opaque" /\ hist.last.host = A

\* C14 (as claimed): the decorated function returns the same result, or
\* raises the same error, as retry(Retriable(f, args)) with the same max_tries,
\* backoff and send_host: whatever way the run of retry() ends, the wrapper
\* hands that same ending to its caller.
C14_DecoratorEquivalent ==
    pc = "done" => wrapper(outcome) = outcome

\* C19 (as claimed): all_closed() is a pure query: a call of it, made directly
\* or by retry() after a rejection, leaves every breaker as it was; it never
\* moves an open breaker past its cool-down to half-open.
C19_AllClosedIsPure ==
    [][/\ (\E order \in Orders(circuits) : CallAllClosed(order)) => circuits' = circuits
       /\ (AttemptStep /\ hist'.last.kind = "rejected") => circuits' = circuits]_vars

\* the ways a run of retry() may end, by the claim: the result, an opaque
\* error of the operation, or one of the three errors of the client
ClaimedEndings ==
    {"Result", "NoHostsAvailable", "AllHostsUnreachable", "MaxRetriesReached"}
        \cup (ErrorKinds \ error_types)

\* a run selects a host once per pass of the loop, i passes so far, and
\* invokes the operation at most once per pass
BoundedRun ==
    /\ pc \in {"loop", "sleep"} => (1 <= i /\ i <= max_tries)
    /\ pc = "done" => (i <= max_tries \/ (max_tries <= 0 /\ i = 0))
    /\ hist.invocations <= i
    /\ pc = "loop" => hist.invocations < i
    /\ (pc = "done" /\ outcome = "Result") =>
          (hist.last.kind = "ok" /\ hist.resultHost = hist.last.host)
    /\ (pc = "done" /\ max_tries <= 0) =>
          (outcome = "MaxRetriesReached" /\ hist.invocations = 0 /\ hist.last.kind = "none")

\* C20 (as claimed): a run of retry() selects a host and invokes the operation
\* at most max_tries times each and ends in exactly one of: the result of the
\* first successful invocation, an opaque error, NoHostsAvailable,
\* AllHostsUnreachable or MaxRetriesReached; with max_tries <= 0 it ends with
\* MaxRetriesReached without a selection or an invocation.
C20_RetryEndsAsClaimed ==
    /\ BoundedRun
    /\ pc = "done" => outcome \in ClaimedEndings

----------------------------------------------------------------------------
(* Properties of the host pool *)

\* the host after x in the cyclic order of the list q
After(q, x) ==
    LET k == CHOOSE j \in 1..Len(q) : q[j] = x IN q[(k % Len(q)) + 1]

\* C10: a call of next() that runs beside replacements of the host list
\* returns a host of a generation that was current during the call (the one
\* before or the one after a replacement), and fails with NoHostsAvailable
\* only when such a generation was empty; the calls never go back to an older
\* generation, and while no replacement intervenes they walk the one
\* generation in its cyclic order.
C10_OneGenerationPerCall ==
    /\ (obs.last.called /\ obs.last.err = "none")
          => \E g \in obs.last.lo..obs.last.hi : obs.last.val \in gens[g]
    /\ (obs.last.called /\ obs.last.err # "none")
          => (obs.last.err = "NoHostsAvailable"
                /\ \E g \in obs.last.lo..obs.last.hi : gens[g] = {})
    /\ obs.last.called => obs.last.lo <= obs.last.ref /\ obs.last.ref <= obs.last.hi
    /\ obs.prev.called => obs.prev.ref <= obs.last.ref
    /\ (obs.prev.called /\ obs.prev.lo = obs.last.hi /\ obs.last.hi = Len(gens)
           /\ completed = Len(gens))
          => /\ obs.prev.err = obs.last.err
             /\ obs.last.err = "none" => obs.last.val = After(provider.hosts, obs.prev.val)

C10_Witness ==
    /\ obs.prev.called /\ obs.last.called
    /\ obs.prev.err = "none" /\ obs.last.err = "none"
    /\ obs.prev.hi < obs.last.hi /\ obs.last.lo < obs.last.hi
    /\ obs.last.val \notin gens[obs.last.hi] /\ obs.prev.val \notin gens[obs.last.lo]

----------------------------------------------------------------------------
(* Properties of the hostname adapter *)

Has(cfg, k) == k \in DOMAIN cfg

\* sslPort is present and non-zero
Secure(cfg) == Has(cfg, "sslPort") /\ cfg["sslPort"] # 0

\* C15 (as claimed): for every descriptor (with an address) the adapter renders
\* the secure scheme with the secure port when sslPort is present and
\* non-zero, the plain scheme with port when sslPort is absent or 0, and fails
\* when neither sslPort nor port is present; the port rendered is the one of
\* the scheme rendered.
C15_RendersEveryDescriptor ==
    (rendered.done /\ Has(descriptor, "address")) =>
        IF ~Has(descriptor, "sslPort") /\ ~Has(descriptor, "port")
        THEN rendered.err # "none"
        ELSE /\ rendered.err = "none"
             /\ Secure(descriptor) => /\ rendered.val[1] = "https"
                                  /\ rendered.val[3] = descriptor["sslPort"]
             /\ ~Secure(descriptor) => /\ rendered.val[1] = "http"
                                   /\ Has(descriptor, "port")
                                   /\ rendered.val[3] = descriptor["port"]

\* C15 (amended): for a descriptor with an address the adapter renders the
\* secure scheme with the secure port when sslPort is present and non-zero,
\* and the plain scheme with port when sslPort is absent or 0 and port is
\* present; it fails with a KeyError when the address is absent, and when port
\* is absent while sslPort is absent or 0; the port rendered is always the one
\* of the scheme rendered, and the address is the descriptor's.
C15_RendersOrFails ==
    rendered.done =>
        IF ~Has(descriptor, "address") \/ (~Secure(descriptor) /\ ~Has(descriptor, "port"))
        THEN rendered.err = "KeyError"
        ELSE /\ rendered.err = "none"
             /\ rendered.val[2] = descriptor["address"]
             /\ Secure(descriptor) => /\ rendered.val[1] = "https"
                                  /\ rendered.val[3] = descriptor["sslPort"]
             /\ ~Secure(descriptor) => /\ rendered.val[1] = "http"
                                   /\ rendered.val[3] = descriptor["port"]

C15_Witness ==
    /\ rendered.done /\ rendered.err = "none"
    /\ Has(descriptor, "sslPort") /\ Has(descriptor, "port")
    /\ descriptor["sslPort"] = 8443 /\ descriptor["port"] = 8080
    /\ rendered.val = <<"https", descriptor["address"], 8443>>

----------------------------------------------------------------------------
(* Properties of Retriable *)

\* C16: every invocation of a Retriable calls the operation with the fixed
\* positional arguments and with the stored keyword parameters overridden only
\* by the invocation's own overrides, and leaves the stored arguments and
\* keyword parameters as they were constructed; a host bound by one invocation
\* is not seen by a later invocation.
C16_InvocationsLeaveRetriable ==
    /\ retriable = constructed
    /\ invoked.called =>
          /\ invoked.args = constructed.args
          /\ DOMAIN invoked.kwargs = DOMAIN constructed.kwargs \cup DOMAIN invoked.overrides
          /\ \A k \in DOMAIN invoked.kwargs :
                invoked.kwargs[k] = IF k \in DOMAIN invoked.overrides
                                    THEN invoked.overrides[k] ELSE constructed.kwargs[k]
          /\ ("host" \notin DOMAIN invoked.overrides /\ "host" \notin DOMAIN constructed.kwargs)
                => "host" \notin DOMAIN invoked.kwargs

C16_Witness ==
    /\ invoked.called
    /\ "host" \in DOMAIN invoked.before /\ invoked.before["host"] = "A"
    /\ "host" \notin DOMAIN invoked.overrides
    /\ "host" \notin DOMAIN invoked.kwargs
    /\ "timeout" \in DOMAIN constructed.kwargs /\ constructed.args = <<"x">>

----------------------------------------------------------------------------
(* Properties of the provider, its watches and its threads *)

\* a step in which the registry changes
RegistryChange == changes' # changes

\* a step in which the host generation is replaced
Replacement == provider'.it.iter # provider.it.iter

\* C11 (as claimed): with a push-capable backend, over any interleaving of
\* get_host() calls watch_all is registered at most once, by the first access
\* and never again, and every firing of the watch callback replaces the
\* generation by the hosts it delivers.
C11_WatchRegisteredOnce ==
    /\ Len(watches) <= 1
    /\ (mode = "watching" /\ seen.call.ended) => Len(watches) = 1

C13_FirstGetHostLoads ==
    (seen.call.ended /\ seen.call.first /\ changes = 0) =>
        /\ provider.loaded /\ seen.call.refreshes >= 1
        /\ children # <<>> =>
              /\ seen.call.err = "none"
              /\ \E k \in 1..Len(children) :
                    seen.call.val = NodeDataAt(children[k], versions[children[k]])

\* C17 (as claimed): once watch_all has been registered, every change of the
\* child set and every change of the data of a child that is in the set,
\* also one that joined after the registration, leads to a callback and so
\* replaces the host generation.
C17_EveryChangeReplaces ==
    [][(RegistryChange /\ watches # <<>>) => Replacement]_vars

\* C18 (as claimed): stop() on the handle of watch_all ends without an error
\* and marks every underlying watch stopped, and after _unwatch() the provider
\* holds no watcher.
C18_StopDetaches ==
    seen.unwatch.called =>
        /\ seen.unwatch.err = "none"
        /\ watches[Len(watches)].stopped = Underlying(watches[Len(watches)])
        /\ provider.watcher = "None"

====
